---------------------------- MODULE Spec2Model ----------------------------
(***************************************************************************)
(* The Zoho CRM integration layer of app.py: the process-wide OAuth token  *)
(* cache with get_zoho_access_token, the generic reader fetch_from_zoho    *)
(* and the endpoint get_medical_expert_from_zoho built on them.            *)
(*                                                                         *)
(* Every request runs on a thread; a thread's position in the code is      *)
(* pc[t] (named after the source line it is about to execute) and its      *)
(* local variables are loc[t].  Time is the wall clock in seconds.  It     *)
(* advances only while every running thread is blocked in network I/O      *)
(* (local statements take far less than a second), and a response never    *)
(* takes longer than MaxLatency.                                           *)
(***************************************************************************)
EXTENDS Integers, Sequences, FiniteSets, TLC

\* ------------------------------------------------------------------ bounds
NumThreads == 2
MaxClock == 240
MaxTokens == 3
MaxLatency == 120
TickSteps == {60, 120}

Threads == 1..NumThreads

\* --------------------------------------------------------------- constants
\* timedelta(seconds=expires_in - 60)
Margin == 60
\* data.get('expires_in', 3600)
DefaultExpiresIn == 3600
\* response.status_code != 200
StatusOk == 200

\* Python's None for string-valued names, and for the datetime (a 0/1-tuple)
None == "None"
NoTime == <<>>

\* Python truthiness of a str-or-None value
Truthy(x) == x # None /\ x # ""

\* dict.get(key, default)
Get(d, k, default) == IF k \in DOMAIN d THEN d[k] ELSE default

VARIABLES cache, clock, minted, pc, loc
vars == <<cache, clock, minted, pc, loc>>

\* ------------------------------------------------------------ environment
\* Lifetimes the provider gives its tokens; it may omit expires_in from the
\* response only for a token of the default lifetime.
Lifetimes == {180, DefaultExpiresIn}

TokenResponses(tok, life) ==
    {[status |-> StatusOk, json |-> [access_token |-> tok, expires_in |-> life]]}
    \cup (IF life = DefaultExpiresIn
          THEN {[status |-> StatusOk, json |-> [access_token |-> tok]]}
          ELSE {})

TokenFailures == {[status |-> 401, text |-> "invalid_client"]}

\* the tokens the provider has issued so far, by name
Issued == {ToString(i) : i \in 1..Len(minted)}
Grant(tok) == minted[CHOOSE i \in 1..Len(minted) : ToString(i) = tok]

\* a token is accepted by the CRM at time `at` while its lifetime runs
Valid(tok, at) == tok \in Issued /\ at < Grant(tok).at + Grant(tok).life

\* ------------------------------------------------------- values and locals
Ok(v) == [ok |-> TRUE, val |-> v]
Raise(e) == [ok |-> FALSE, err |-> e]

\* requests raises when no response arrives at all
ConnectionError == [exc |-> "ConnectionError", msg |-> <<"connection failed">>]

NoResp == [kind |-> "none"]
NoArgs == [module_name |-> None, record_id |-> None, criteria |-> None, fields |-> None]

\* zoho_access_token_cache
EmptyCache == [token |-> None, expires_at |-> NoTime]

\* A thread's locals.  op is the request it serves; now, resp, access_token and
\* expires_in are get_zoho_access_token's; args, token, req and gresp are
\* fetch_from_zoho's; aphra, fetchNo and medical_expert the endpoint's.  pre
\* (the cache as the token call found it), posts, sent, log (the calls made and
\* the requests sent, in order), docs (the documents the searches returned) and
\* doneAt record what the request did, for the properties.
InitLocal ==
    [op |-> "none", now |-> 0, resp |-> NoResp, access_token |-> None,
     expires_in |-> 0, tokRet |-> Ok(None), pre |-> EmptyCache,
     posts |-> 0, sent |-> 0, log |-> <<>>,
     args |-> NoArgs, token |-> None, req |-> NoResp, gresp |-> NoResp,
     fetchRet |-> Ok(None), aphra |-> None, fetchNo |-> 0,
     medical_expert |-> [none |-> TRUE], docs |-> <<>>,
     result |-> Ok(None), doneAt |-> 0]

Init ==
    /\ cache = EmptyCache
    /\ clock = 0
    /\ minted = <<>>
    /\ pc = [t \in Threads |-> "idle"]
    /\ loc = [t \in Threads |-> InitLocal]

Goto(t, l) == pc' = [pc EXCEPT ![t] = l]

\* ------------------------------------------------------------ token manager
\* a caller enters get_zoho_access_token on its own (as list_zoho_modules does)
CallToken(t) ==
    /\ pc[t] = "idle"
    /\ loc' = [loc EXCEPT ![t] = [InitLocal EXCEPT !.op = "token"]]
    /\ Goto(t, "t46")
    /\ UNCHANGED <<cache, clock, minted>>

\* now = datetime.now()
T46(t) ==
    /\ pc[t] = "t46"
    /\ loc' = [loc EXCEPT ![t].now = clock, ![t].pre = cache, ![t].posts = 0,
                          ![t].resp = NoResp, ![t].access_token = None,
                          ![t].expires_in = 0, ![t].tokRet = Ok(None),
                          ![t].log = Append(@, "token")]
    /\ Goto(t, "t48a")
    /\ UNCHANGED <<cache, clock, minted>>

\* if zoho_access_token_cache['token'] and ...
T48a(t) ==
    /\ pc[t] = "t48a"
    /\ Goto(t, IF Truthy(cache.token) THEN "t48b" ELSE "t60")
    /\ UNCHANGED <<cache, clock, minted, loc>>

\* ... and zoho_access_token_cache['expires_at']:
T48b(t) ==
    /\ pc[t] = "t48b"
    /\ Goto(t, IF cache.expires_at # NoTime THEN "t49" ELSE "t60")
    /\ UNCHANGED <<cache, clock, minted, loc>>

\* now < expires_at   (Fresh_Inclusive: the variant with <=)
Fresh_Inclusive(now, expires_at) == now <= expires_at
Fresh(now, expires_at) == now < expires_at

\* if now < zoho_access_token_cache['expires_at']:
T49(t) ==
    /\ pc[t] = "t49"
    /\ Goto(t, IF Fresh(loc[t].now, cache.expires_at[1]) THEN "t50" ELSE "t60")
    /\ UNCHANGED <<cache, clock, minted, loc>>

\* return zoho_access_token_cache['token']
T50(t) ==
    /\ pc[t] = "t50"
    /\ loc' = [loc EXCEPT ![t].tokRet = Ok(cache.token)]
    /\ Goto(t, "tret")
    /\ UNCHANGED <<cache, clock, minted>>

NextToken == ToString(Len(minted) + 1)

\* response = requests.post(token_url, params=params): the provider handles
\* the request now; its answer reaches the caller in T62
T60(t) ==
    /\ pc[t] = "t60"
    /\ \/ /\ Len(minted) < MaxTokens
          /\ \E life \in Lifetimes :
               \E r \in TokenResponses(NextToken, life) :
                 /\ minted' = Append(minted, [at |-> clock, life |-> life,
                                              now |-> loc[t].now,
                                              declared |-> Get(r.json, "expires_in", DefaultExpiresIn)])
                 /\ loc' = [loc EXCEPT ![t].resp = [kind |-> "response"] @@ r,
                                       ![t].posts = @ + 1, ![t].sent = clock,
                                       ![t].log = Append(@, "post")]
       \/ /\ \E r \in TokenFailures :
               loc' = [loc EXCEPT ![t].resp = [kind |-> "response"] @@ r,
                                  ![t].posts = @ + 1, ![t].sent = clock,
                                  ![t].log = Append(@, "post")]
          /\ UNCHANGED minted
       \/ /\ loc' = [loc EXCEPT ![t].resp = [kind |-> "raise"],
                                ![t].posts = @ + 1, ![t].sent = clock,
                                ![t].log = Append(@, "post")]
          /\ UNCHANGED minted
    /\ Goto(t, "t60w")
    /\ UNCHANGED <<cache, clock>>

\* raise Exception(f'Failed to get Zoho access token: {response.text}')
TokenError(text) == [exc |-> "Exception", msg |-> <<"Failed to get Zoho access token: ", text>>]

\* the variant of T62 that empties the cache when the refresh is refused
T62_DropsCache(t) ==
    /\ pc[t] = "t60w"
    /\ IF loc[t].resp.kind = "raise"
       THEN /\ loc' = [loc EXCEPT ![t].tokRet = Raise(ConnectionError),
                                  ![t].log = Append(@, "post_failed")]
            /\ Goto(t, "tret")
            /\ UNCHANGED cache
       ELSE IF loc[t].resp.status # StatusOk
       THEN /\ loc' = [loc EXCEPT ![t].tokRet = Raise(TokenError(loc[t].resp.text)),
                                  ![t].log = Append(@, "post_failed")]
            /\ Goto(t, "tret")
            /\ cache' = EmptyCache
       ELSE /\ loc' = [loc EXCEPT
                 ![t].access_token = Get(loc[t].resp.json, "access_token", None),
                 ![t].expires_in = Get(loc[t].resp.json, "expires_in", DefaultExpiresIn)]
            /\ Goto(t, "t69")
            /\ UNCHANGED cache
    /\ UNCHANGED <<clock, minted>>

\* The answer arrives: requests.post raises or returns; a status other than
\* 200 raises; otherwise data.get('access_token'), data.get('expires_in', 3600)
T62(t) ==
    /\ pc[t] = "t60w"
    /\ IF loc[t].resp.kind = "raise"
       THEN /\ loc' = [loc EXCEPT ![t].tokRet = Raise(ConnectionError),
                                  ![t].log = Append(@, "post_failed")]
            /\ Goto(t, "tret")
       ELSE IF loc[t].resp.status # StatusOk
       THEN /\ loc' = [loc EXCEPT ![t].tokRet = Raise(TokenError(loc[t].resp.text)),
                                  ![t].log = Append(@, "post_failed")]
            /\ Goto(t, "tret")
       ELSE /\ loc' = [loc EXCEPT
                 ![t].access_token = Get(loc[t].resp.json, "access_token", None),
                 ![t].expires_in = Get(loc[t].resp.json, "expires_in", DefaultExpiresIn)]
            /\ Goto(t, "t69")
    /\ UNCHANGED <<cache, clock, minted>>

\* zoho_access_token_cache['token'] = access_token
T69(t) ==
    /\ pc[t] = "t69"
    /\ cache' = [cache EXCEPT !.token = loc[t].access_token]
    /\ Goto(t, "t70")
    /\ UNCHANGED <<clock, minted, loc>>

\* now + timedelta(seconds=expires_in - 60)   (ExpiresAt_NoMargin: the variant
\* that keeps the whole declared lifetime)
ExpiresAt_NoMargin(now, expires_in) == now + expires_in
ExpiresAt(now, expires_in) == now + (expires_in - Margin)

\* zoho_access_token_cache['expires_at'] = now + timedelta(seconds=expires_in - 60)
T70(t) ==
    /\ pc[t] = "t70"
    /\ cache' = [cache EXCEPT !.expires_at = <<ExpiresAt(loc[t].now, loc[t].expires_in)>>]
    /\ Goto(t, "t72")
    /\ UNCHANGED <<clock, minted, loc>>

\* return access_token
T72(t) ==
    /\ pc[t] = "t72"
    /\ loc' = [loc EXCEPT ![t].tokRet = Ok(loc[t].access_token)]
    /\ Goto(t, "tret")
    /\ UNCHANGED <<cache, clock, minted>>

\* get_zoho_access_token hands its result, or its exception, to a caller that
\* asked for the token alone
TokenDone(t) ==
    /\ pc[t] = "tret"
    /\ loc[t].op = "token"
    /\ loc' = [loc EXCEPT ![t].result = loc[t].tokRet, ![t].doneAt = clock]
    /\ Goto(t, "done")
    /\ UNCHANGED <<cache, clock, minted>>

\* the request is over and the thread takes the next one
Finish(t) ==
    /\ pc[t] = "done"
    /\ loc' = [loc EXCEPT ![t] = InitLocal]
    /\ Goto(t, "idle")
    /\ UNCHANGED <<cache, clock, minted>>

\* ------------------------------------------------------------------- time
Blocked(t) == pc[t] \in {"idle", "t60w", "f96w"}
Waiting(t) == pc[t] \in {"t60w", "f96w"}

Tick ==
    \E d \in TickSteps :
      /\ clock + d <= MaxClock
      /\ \A t \in Threads : Blocked(t)
      /\ \A t \in Threads : Waiting(t) => clock + d - loc[t].sent <= MaxLatency
      /\ clock' = clock + d
      /\ UNCHANGED <<cache, minted, pc, loc>>

TokenStep(t) ==
    \/ T46(t) \/ T48a(t) \/ T48b(t) \/ T49(t) \/ T50(t)
    \/ T60(t) \/ T62(t) \/ T69(t) \/ T70(t) \/ T72(t)

\* -------------------------------------------------------- CRM record client
BaseUrl == "https://www.zohoapis.com/crm/v2"

\* the arguments callers pass: None, the empty string, or a value
ModuleNames == {"Modules"}
RecordIds == {None, "", "123"}
CriteriaArgs == {None, "", "(Name:equals:X)"}
FieldsArgs == {None, "", "id,Name"}

\* records the CRM holds
ExpertFull ==
    [id |-> "E1", Medical_Expert_First_Name |-> "Ann", Last_Name |-> "Lee",
     Doctor_ID |-> "D1", APHRA_Number |-> "MED1", Vinici_User_Name |-> "alee"]
ExpertBare == [Last_Name |-> "Lee"]
Sector1 == ("$approved" :> "true") @@ ("Name" :> "Workers Comp") @@ ("id" :> "S1")
Plain1 == [id |-> "123", Name |-> "X"]

\* what a 200 answer of the CRM may carry for a module
Documents(module_name) ==
    {[info |-> "no data"], [data |-> <<>>]}
    \cup (CASE module_name = "Medical_Experts" ->
                 {[data |-> <<ExpertFull>>], [data |-> <<ExpertBare>>]}
            [] module_name = "Sectors_and_Schemes" -> {[data |-> <<Sector1>>]}
            [] OTHER -> {[data |-> <<Plain1>>]})

\* the CRM's answers: 200 with a document, 204 without a body, an error status
CrmResponses(module_name) ==
    {[kind |-> "response", status |-> StatusOk, json |-> d] : d \in Documents(module_name)}
    \cup {[kind |-> "response", status |-> 204, text |-> ""],
          [kind |-> "response", status |-> 500, text |-> "INTERNAL_ERROR"]}

\* if record_id: ... elif criteria: ... else: ...   (a path, joined by "/";
\* FetchUrl_CriteriaFirst: the variant that tests criteria first)
FetchUrl_CriteriaFirst(module_name, record_id, criteria) ==
    IF Truthy(criteria) THEN <<BaseUrl, module_name, "search">>
    ELSE IF Truthy(record_id) THEN <<BaseUrl, module_name, record_id>>
    ELSE <<BaseUrl, module_name>>
FetchUrl(module_name, record_id, criteria) ==
    IF Truthy(record_id) THEN <<BaseUrl, module_name, record_id>>
    ELSE IF Truthy(criteria) THEN <<BaseUrl, module_name, "search">>
    ELSE <<BaseUrl, module_name>>

\* params = {}; if criteria: params['criteria'] = criteria; if fields: ...
FetchParams(criteria, fields) ==
    (IF Truthy(criteria) THEN [criteria |-> criteria] ELSE <<>>)
    @@ (IF Truthy(fields) THEN [fields |-> fields] ELSE <<>>)

\* headers = {'Authorization': f'Zoho-oauthtoken {access_token}'}
\* (AuthHeaders_Bearer: the variant with the Bearer scheme)
AuthHeaders_Bearer(access_token) == [Authorization |-> <<"Bearer ", access_token>>]
AuthHeaders(access_token) == [Authorization |-> <<"Zoho-oauthtoken ", access_token>>]

\* raise Exception(f'Failed to fetch from Zoho {module_name}: {response.text}')
FetchError(module_name, text) ==
    [exc |-> "Exception", msg |-> <<"Failed to fetch from Zoho ", module_name, ": ", text>>]

\* a caller enters fetch_from_zoho on its own
CallFetch(t) ==
    /\ pc[t] = "idle"
    /\ \E m \in ModuleNames, r \in RecordIds, c \in CriteriaArgs, f \in FieldsArgs :
         loc' = [loc EXCEPT ![t] = [InitLocal EXCEPT
                    !.op = "fetch", !.log = <<"fetch">>,
                    !.args = [module_name |-> m, record_id |-> r,
                              criteria |-> c, fields |-> f]]]
    /\ Goto(t, "t46")
    /\ UNCHANGED <<cache, clock, minted>>

\* access_token = get_zoho_access_token(): the token, or the exception, which
\* fetch_from_zoho does not catch
F75(t) ==
    /\ pc[t] = "tret"
    /\ loc[t].op \in {"fetch", "expert"}
    /\ IF loc[t].tokRet.ok
       THEN /\ loc' = [loc EXCEPT ![t].token = loc[t].tokRet.val]
            /\ Goto(t, "f77")
       ELSE /\ loc' = [loc EXCEPT ![t].fetchRet = loc[t].tokRet]
            /\ Goto(t, "fret")
    /\ UNCHANGED <<cache, clock, minted>>

\* lines 77-96: the request is built and sent, and the CRM handles it now;
\* its answer reaches the caller in F98
F96(t) ==
    /\ pc[t] = "f77"
    /\ \E g \in CrmResponses(loc[t].args.module_name) \cup {[kind |-> "raise"]} :
         loc' = [loc EXCEPT
            ![t].req = [url |-> FetchUrl(loc[t].args.module_name,
                                         loc[t].args.record_id, loc[t].args.criteria),
                        headers |-> AuthHeaders(loc[t].token),
                        params |-> FetchParams(loc[t].args.criteria, loc[t].args.fields)],
            ![t].gresp = g, ![t].sent = clock, ![t].log = Append(@, "get")]
    /\ Goto(t, "f96w")
    /\ UNCHANGED <<cache, clock, minted>>

\* if response.status_code != 200   (FetchFailed_Non2xx: the variant that
\* accepts every 2xx status)
FetchFailed_Non2xx(status) == status < 200 \/ status >= 300
FetchFailed(status) == status # StatusOk

\* response.json(): the parsed body, or the decoder's exception without one
JSONDecodeError == [exc |-> "JSONDecodeError", msg |-> <<"Expecting value">>]
ParseJson(response) ==
    IF "json" \in DOMAIN response THEN Ok(response.json) ELSE Raise(JSONDecodeError)

\* lines 96-101 once the answer is there
FetchOutcome(module_name, response) ==
    IF response.kind = "raise" THEN Raise(ConnectionError)
    ELSE IF FetchFailed(response.status)
    THEN Raise(FetchError(module_name, response.text))
    ELSE ParseJson(response)

\* The answer arrives: requests.get raises or returns; a status other than
\* 200 raises; otherwise return response.json()
F98(t) ==
    /\ pc[t] = "f96w"
    /\ loc' = [loc EXCEPT
          ![t].fetchRet = FetchOutcome(loc[t].args.module_name, loc[t].gresp),
          ![t].log = IF FetchOutcome(loc[t].args.module_name, loc[t].gresp).ok
                     THEN @ ELSE Append(@, "get_failed")]
    /\ Goto(t, "fret")
    /\ UNCHANGED <<cache, clock, minted>>

\* fetch_from_zoho hands its result, or its exception, to a caller that asked
\* for the fetch alone
FetchDone(t) ==
    /\ pc[t] = "fret"
    /\ loc[t].op = "fetch"
    /\ loc' = [loc EXCEPT ![t].result = loc[t].fetchRet, ![t].doneAt = clock]
    /\ Goto(t, "done")
    /\ UNCHANGED <<cache, clock, minted>>

FetchStep(t) == F75(t) \/ F96(t) \/ F98(t)

\* ------------------------------------------- /api/medical-experts-zoho
BEARER_TOKEN == "secret"

\* the Authorization header, as <<scheme, credentials>>, or <<>> when missing
AuthHeaderValues == {<<>>, <<"Basic ", "x">>, <<"Bearer ", "wrong">>, <<"Bearer ", BEARER_TOKEN>>}
AphraNumbers == {None, "", "MED1"}

Jsonify(status, body) == [status |-> status, body |-> body]

\* lines 171-182: the bearer gate and the required parameter; "pass" or the
\* response that ends the request
Gate(auth_header, aphra_number) ==
    IF auth_header = <<>> \/ auth_header[1] # "Bearer "
    THEN Jsonify(401, [error |-> <<"Missing or invalid Authorization header">>])
    ELSE IF auth_header[2] # BEARER_TOKEN
    THEN Jsonify(401, [error |-> <<"Invalid token">>])
    ELSE IF ~Truthy(aphra_number)
    THEN Jsonify(400, [error |-> <<"aphra_number parameter is required">>])
    ELSE Jsonify(0, [pass |-> TRUE])

\* f"({field}:equals:{value})" over the values that occur
FmtCriteria(field, value) ==
    CASE field = "APHRA_Number" /\ value = "MED1" -> "(APHRA_Number:equals:MED1)"
      [] field = "Medical_Expert" /\ value = "E1" -> "(Medical_Expert:equals:E1)"
      [] field = "Medical_Expert" /\ value = None -> "(Medical_Expert:equals:None)"

MedicalExpertFields == "id,Medical_Expert_First_Name,Last_Name,Doctor_ID,APHRA_Number,Vinici_User_Name"

\* the request arrives; past the gate the first fetch_from_zoho call starts
CallExpert(t) ==
    /\ pc[t] = "idle"
    /\ \E h \in AuthHeaderValues, a \in AphraNumbers :
         IF Gate(h, a).status # 0
         THEN /\ loc' = [loc EXCEPT ![t] = [InitLocal EXCEPT
                            !.op = "expert", !.aphra = a,
                            !.result = Gate(h, a), !.doneAt = clock]]
              /\ Goto(t, "done")
         ELSE /\ loc' = [loc EXCEPT ![t] = [InitLocal EXCEPT
                            !.op = "expert", !.aphra = a, !.fetchNo = 1,
                            !.log = <<"fetch">>,
                            !.args = [module_name |-> "Medical_Experts", record_id |-> None,
                                      criteria |-> FmtCriteria("APHRA_Number", a),
                                      fields |-> MedicalExpertFields]]]
              /\ Goto(t, "t46")
    /\ UNCHANGED <<cache, clock, minted>>

\* not medical_expert_response.get('data') or len(medical_expert_response['data']) == 0
NoRecords(doc) == "data" \notin DOMAIN doc \/ Len(doc.data) = 0

\* keys that start with "$"
DollarKeys == {"$approved", "$editable"}

\* {k: v for k, v in sector.items() if not k.startswith('$')}
CleanSector(sector) == [k \in DOMAIN sector \ DollarKeys |-> sector[k]]

\* lines 214-222
ExpertPayload(medical_expert, cleaned_sectors) ==
    [APHRA_Number |-> Get(medical_expert, "APHRA_Number", None),
     Medical_Expert_First_Name |-> Get(medical_expert, "Medical_Expert_First_Name", None),
     Last_Name |-> Get(medical_expert, "Last_Name", None),
     Doctor_ID |-> Get(medical_expert, "Doctor_ID", None),
     Vinici_User_Name |-> Get(medical_expert, "Vinici_User_Name", None),
     id |-> Get(medical_expert, "id", None),
     Sectors_and_Schemes |-> cleaned_sectors]

\* the variant of E227 that answers 200 with the profile and no sectors when
\* the second call fails
E227_Partial(t) ==
    /\ pc[t] = "fret"
    /\ loc[t].op = "expert"
    /\ ~loc[t].fetchRet.ok
    /\ loc' = [loc EXCEPT
          ![t].result =
             IF loc[t].fetchNo = 2
             THEN Jsonify(200, ExpertPayload(loc[t].medical_expert, <<>>))
             ELSE Jsonify(500, [error |-> <<"Zoho API error: ">> \o loc[t].fetchRet.err.msg]),
          ![t].doneAt = clock]
    /\ Goto(t, "done")
    /\ UNCHANGED <<cache, clock, minted>>

\* except Exception as e: return jsonify({'error': f'Zoho API error: {str(e)}'}), 500
E227(t) ==
    /\ pc[t] = "fret"
    /\ loc[t].op = "expert"
    /\ ~loc[t].fetchRet.ok
    /\ loc' = [loc EXCEPT
          ![t].result = Jsonify(500, [error |-> <<"Zoho API error: ">> \o loc[t].fetchRet.err.msg]),
          ![t].doneAt = clock]
    /\ Goto(t, "done")
    /\ UNCHANGED <<cache, clock, minted>>

\* the variant of E194 that answers 200 with an empty profile when the first
\* search finds nothing
E194_EmptySuccess(t) ==
    /\ pc[t] = "fret"
    /\ loc[t].op = "expert"
    /\ loc[t].fetchRet.ok
    /\ loc[t].fetchNo = 1
    /\ IF NoRecords(loc[t].fetchRet.val)
       THEN /\ loc' = [loc EXCEPT
                 ![t].result = Jsonify(200, ExpertPayload(<<>>, <<>>)),
                 ![t].docs = Append(@, loc[t].fetchRet.val),
                 ![t].doneAt = clock]
            /\ Goto(t, "done")
       ELSE /\ loc' = [loc EXCEPT
                 ![t].medical_expert = loc[t].fetchRet.val.data[1],
                 ![t].fetchNo = 2,
                 ![t].docs = Append(@, loc[t].fetchRet.val),
                 ![t].token = None, ![t].req = NoResp, ![t].gresp = NoResp,
                 ![t].fetchRet = Ok(None),
                 ![t].log = Append(@, "fetch"),
                 ![t].args = [module_name |-> "Sectors_and_Schemes", record_id |-> None,
                              criteria |-> FmtCriteria("Medical_Expert",
                                             Get(loc[t].fetchRet.val.data[1], "id", None)),
                              fields |-> None]]
            /\ Goto(t, "t46")
    /\ UNCHANGED <<cache, clock, minted>>

\* lines 194-204: the first search has answered; 404 without a record,
\* otherwise the second fetch_from_zoho call starts
E194(t) ==
    /\ pc[t] = "fret"
    /\ loc[t].op = "expert"
    /\ loc[t].fetchRet.ok
    /\ loc[t].fetchNo = 1
    /\ IF NoRecords(loc[t].fetchRet.val)
       THEN /\ loc' = [loc EXCEPT
                 ![t].result = Jsonify(404, [error |-> <<"Medical expert not found">>]),
                 ![t].docs = Append(@, loc[t].fetchRet.val),
                 ![t].doneAt = clock]
            /\ Goto(t, "done")
       ELSE /\ loc' = [loc EXCEPT
                 ![t].medical_expert = loc[t].fetchRet.val.data[1],
                 ![t].fetchNo = 2,
                 ![t].docs = Append(@, loc[t].fetchRet.val),
                 ![t].token = None, ![t].req = NoResp, ![t].gresp = NoResp,
                 ![t].fetchRet = Ok(None),
                 ![t].log = Append(@, "fetch"),
                 ![t].args = [module_name |-> "Sectors_and_Schemes", record_id |-> None,
                              criteria |-> FmtCriteria("Medical_Expert",
                                             Get(loc[t].fetchRet.val.data[1], "id", None)),
                              fields |-> None]]
            /\ Goto(t, "t46")
    /\ UNCHANGED <<cache, clock, minted>>

\* lines 206-224: the second search has answered
E206(t) ==
    /\ pc[t] = "fret"
    /\ loc[t].op = "expert"
    /\ loc[t].fetchRet.ok
    /\ loc[t].fetchNo = 2
    /\ LET sectors_and_schemes == Get(loc[t].fetchRet.val, "data", <<>>)
           cleaned_sectors == [i \in 1..Len(sectors_and_schemes) |->
                                  CleanSector(sectors_and_schemes[i])]
       IN  loc' = [loc EXCEPT
              ![t].result = Jsonify(200, ExpertPayload(loc[t].medical_expert, cleaned_sectors)),
              ![t].docs = Append(@, loc[t].fetchRet.val),
              ![t].doneAt = clock]
    /\ Goto(t, "done")
    /\ UNCHANGED <<cache, clock, minted>>

ExpertStep(t) == E194(t) \/ E206(t) \/ E227(t)

\* --------------------------------------------- one request at a time
Serving == CHOOSE t \in Threads : TRUE

Next ==
    \/ Tick
    \/ CallToken(Serving) \/ CallFetch(Serving) \/ CallExpert(Serving)
    \/ TokenStep(Serving) \/ TokenDone(Serving)
    \/ FetchStep(Serving) \/ FetchDone(Serving)
    \/ ExpertStep(Serving)
    \/ Finish(Serving)

Spec == Init /\ [][Next]_vars

\* ------------------------------------------- concurrent token requests
NextConc ==
    \/ Tick
    \/ \E t \in Threads : CallToken(t) \/ TokenStep(t) \/ TokenDone(t) \/ Finish(t)

SpecConc == Init /\ [][NextConc]_vars

\* ================================================================ properties
Range(s) == {s[i] : i \in 1..Len(s)}
Count(s, e) == Cardinality({i \in 1..Len(s) : s[i] = e})

\* the part of a request's log that belongs to its current fetch_from_zoho call
CurrentFetch(log) ==
    LET i == CHOOSE k \in 1..Len(log) :
                 log[k] = "fetch" /\ \A j \in (k+1)..Len(log) : log[j] # "fetch"
    IN  SubSeq(log, i + 1, Len(log))

\* the token call of thread t found a token in the cache, with an expiry
Cached(t) == loc[t].pre.token \notin {None, ""} /\ loc[t].pre.expires_at # NoTime

\* C1: a call of get_zoho_access_token that finds a cached token and a time
\* strictly before its expires_at returns that token, sends no POST to the
\* token endpoint and leaves the cache as it found it; at a time equal to
\* expires_at the call sends the refresh POST instead.
C1_CachedTokenReused ==
    \A t \in Threads : pc[t] = "tret" =>
      /\ (Cached(t) /\ loc[t].now < loc[t].pre.expires_at[1]) =>
            /\ loc[t].tokRet = Ok(loc[t].pre.token)
            /\ loc[t].posts = 0
            /\ cache = loc[t].pre
      /\ (Cached(t) /\ loc[t].now = loc[t].pre.expires_at[1]) => loc[t].posts = 1

C1_Witness ==
    \E t \in Threads :
      /\ pc[t] = "tret" /\ Cached(t) /\ loc[t].now < loc[t].pre.expires_at[1]
      /\ loc[t].now > 0 /\ loc[t].tokRet.ok /\ loc[t].posts = 0

C1_BoundaryReached ==
    \E t \in Threads :
      pc[t] = "tret" /\ Cached(t) /\ loc[t].now = loc[t].pre.expires_at[1]

\* the provider answered the refresh of thread t's token call with status 200
Refreshed(t) == loc[t].resp.kind = "response" /\ loc[t].resp.status = 200

\* C2: a call that finds no cached token, or an expired one, and whose refresh
\* the provider answers with 200 has sent exactly one POST, returns the
\* access_token of the answer and leaves the cache holding that token with
\* expires_at = now + expires_in - 60, expires_in being 3600 when not declared.
C2_RefreshCachesToken ==
    \A t \in Threads :
      (/\ pc[t] = "tret"
       /\ ~(Cached(t) /\ loc[t].now < loc[t].pre.expires_at[1])
       /\ Refreshed(t)) =>
         LET json == loc[t].resp.json
             lifetime == IF "expires_in" \in DOMAIN json THEN json.expires_in ELSE 3600
         IN  /\ loc[t].posts = 1
             /\ loc[t].tokRet = Ok(json.access_token)
             /\ cache = [token |-> json.access_token,
                         expires_at |-> <<loc[t].now + lifetime - 60>>]

C2_Witness ==
    \E t \in Threads :
      /\ pc[t] = "tret" /\ Refreshed(t) /\ Cached(t)
      /\ "expires_in" \notin DOMAIN loc[t].resp.json
      /\ clock > loc[t].now
      /\ cache.token # loc[t].pre.token

\* C3: when the provider answers the refresh with a failure status, the call
\* raises an error carrying the response body and the cache is as the call
\* found it (so nothing is stored into an empty cache).
C3_FailedRefreshKeepsCache ==
    \A t \in Threads :
      (/\ pc[t] = "tret"
       /\ loc[t].resp.kind = "response"
       /\ loc[t].resp.status # 200) =>
         /\ ~loc[t].tokRet.ok
         /\ loc[t].tokRet.err.msg = <<"Failed to get Zoho access token: ", loc[t].resp.text>>
         /\ cache = loc[t].pre

C3_Witness ==
    \E t \in Threads :
      /\ pc[t] = "tret" /\ loc[t].resp.kind = "response" /\ loc[t].resp.status = 401
      /\ Cached(t) /\ ~loc[t].tokRet.ok

\* no call stands between its two cache writes (lines 69 and 70)
NoWriteInProgress == \A t \in Threads : pc[t] # "t70"

\* C4: whenever the cache holds a token, it holds an expires_at too, equal to
\* the refresh time of the call that obtained this token plus the lifetime the
\* provider declared for it minus 60 seconds.  Stated for the states in which
\* no call stands between its two writes, so that a violation is a cache left
\* wrong, not one caught half written.
C4_CacheInvariant ==
    (NoWriteInProgress /\ cache.token \notin {None, ""}) =>
       /\ cache.expires_at # NoTime
       /\ cache.expires_at[1] =
             Grant(cache.token).now + Grant(cache.token).declared - 60

\* C5: every token a caller receives is one the provider issued and is not
\* expired at the time the caller receives it, whatever the interleaving.
C5_NoExpiredToken ==
    \A t \in Threads :
      (pc[t] = "done" /\ loc[t].op = "token" /\ loc[t].result.ok) =>
         Valid(loc[t].result.val, loc[t].doneAt)

\* an optional argument counts as given when it is neither None nor empty
Given(x) == x \notin {None, ""}

\* thread t has built and sent the GET of its current fetch_from_zoho call
Sent(t) == "url" \in DOMAIN loc[t].req

\* C6: the URL of the GET is {base}/{module}/{record_id} when record_id is
\* given, otherwise {base}/{module}/search when criteria is given, otherwise
\* {base}/{module}; with record_id and no criteria there is no criteria
\* parameter, with criteria and no record_id the criteria parameter is the
\* criteria as passed.
C6_UrlPrecedence ==
    \A t \in Threads : Sent(t) =>
      LET a == loc[t].args
          base == "https://www.zohoapis.com/crm/v2"
          url == loc[t].req.url
          params == loc[t].req.params
      IN  /\ Given(a.record_id) => url = <<base, a.module_name, a.record_id>>
          /\ (~Given(a.record_id) /\ Given(a.criteria)) =>
                url = <<base, a.module_name, "search">>
          /\ (~Given(a.record_id) /\ ~Given(a.criteria)) => url = <<base, a.module_name>>
          /\ (Given(a.record_id) /\ ~Given(a.criteria)) => "criteria" \notin DOMAIN params
          /\ (Given(a.criteria) /\ ~Given(a.record_id)) =>
                "criteria" \in DOMAIN params /\ params.criteria = a.criteria

C6_Witness ==
    \E t \in Threads :
      /\ Sent(t) /\ loc[t].op = "fetch"
      /\ Given(loc[t].args.record_id) /\ Given(loc[t].args.criteria)
      /\ loc[t].req.url[3] = loc[t].args.record_id

\* the GET of thread t's current fetch failed: no answer, or a non-2xx status
GetFailed(t) ==
    \/ loc[t].gresp.kind = "raise"
    \/ loc[t].gresp.kind = "response" /\ loc[t].gresp.status \notin 200..299

\* C7: a fetch_from_zoho call enters the token manager exactly once, before
\* its GET, and sends at most one GET; a GET that fails or is answered with a
\* non-2xx status makes the call raise with no second GET; the GET carries
\* Authorization: 'Zoho-oauthtoken ' + the token this call's token step
\* returned.
C7_OneTokenOneGet ==
    \A t \in Threads : (loc[t].op \in {"fetch", "expert"} /\ loc[t].log # <<>>) =>
      LET s == CurrentFetch(loc[t].log) IN
      /\ Count(s, "token") <= 1
      /\ Count(s, "get") <= 1
      /\ \A i \in 1..Len(s) : s[i] = "get" => \E j \in 1..(i-1) : s[j] = "token"
      /\ pc[t] \in {"f77", "f96w", "fret", "done"} => Count(s, "token") = 1
      /\ Sent(t) =>
            /\ loc[t].tokRet.ok
            /\ loc[t].req.headers =
                  [Authorization |-> <<"Zoho-oauthtoken ", loc[t].tokRet.val>>]
      /\ (pc[t] = "fret" /\ GetFailed(t)) =>
            ~loc[t].fetchRet.ok /\ Count(s, "get") = 1

C7_Witness ==
    \E t \in Threads :
      /\ pc[t] = "fret" /\ loc[t].op = "fetch" /\ GetFailed(t)
      /\ loc[t].posts = 1
      /\ Count(loc[t].log, "get") = 1 /\ ~loc[t].fetchRet.ok

\* the CRM answered thread t's GET with this status
Answered(t) == loc[t].gresp.kind = "response"

\* C8 as stated: fetch_from_zoho fails exactly when the token step fails or
\* the CRM answers with a non-2xx status; a 2xx answer returns the parsed
\* document, a non-2xx answer raises with the body, a token error propagates.
\* Stated for the calls whose GET, if sent, was answered: a GET that got no
\* answer at all is not held against the statement.
C8_FailsIffNon2xx ==
    \A t \in Threads : (pc[t] = "fret" /\ loc[t].gresp.kind # "raise") =>
      /\ ~loc[t].fetchRet.ok <=>
            (~loc[t].tokRet.ok \/ (Answered(t) /\ loc[t].gresp.status \notin 200..299))
      /\ (Answered(t) /\ loc[t].gresp.status \in 200..299) =>
            /\ "json" \in DOMAIN loc[t].gresp
            /\ loc[t].fetchRet = Ok(loc[t].gresp.json)
      /\ (Answered(t) /\ loc[t].gresp.status \notin 200..299) =>
            /\ ~loc[t].fetchRet.ok
            /\ loc[t].fetchRet.err.msg[4] = loc[t].gresp.text
      /\ ~loc[t].tokRet.ok => loc[t].fetchRet = loc[t].tokRet

\* C8 amended: fetch_from_zoho fails exactly when the token step fails, the
\* GET gets no answer, or the CRM answers with a status other than 200; a 200
\* answer returns the parsed document, any other status (204 too) raises with
\* the body, a token error propagates unchanged.
C8_FailsIffNot200 ==
    \A t \in Threads : pc[t] = "fret" =>
      /\ ~loc[t].fetchRet.ok <=>
            \/ ~loc[t].tokRet.ok
            \/ loc[t].gresp.kind = "raise"
            \/ Answered(t) /\ loc[t].gresp.status # 200
      /\ (Answered(t) /\ loc[t].gresp.status = 200) =>
            loc[t].fetchRet = Ok(loc[t].gresp.json)
      /\ (Answered(t) /\ loc[t].gresp.status # 200) =>
            /\ ~loc[t].fetchRet.ok
            /\ loc[t].fetchRet.err.msg =
                  <<"Failed to fetch from Zoho ", loc[t].args.module_name, ": ",
                    loc[t].gresp.text>>
      /\ ~loc[t].tokRet.ok => loc[t].fetchRet = loc[t].tokRet

C8_Witness ==
    \E t \in Threads :
      /\ pc[t] = "fret" /\ loc[t].tokRet.ok
      /\ Answered(t) /\ loc[t].gresp.status = 204
      /\ ~loc[t].fetchRet.ok

\* a document without records: data missing or empty
ZeroRecords(doc) == "data" \notin DOMAIN doc \/ doc.data = <<>>

\* the endpoint has answered a request that passed the gate
Answers(t) == pc[t] = "done" /\ loc[t].op = "expert" /\ loc[t].log # <<>>

\* C9 as stated: whichever of the endpoint's searches returns zero records,
\* the endpoint answers 404.
C9_EverySearch404 ==
    \A t \in Threads : Answers(t) =>
      \A i \in 1..Len(loc[t].docs) :
         ZeroRecords(loc[t].docs[i]) => loc[t].result.status = 404

\* C9 amended: when the Medical_Experts search returns zero records the
\* endpoint answers 404, never 200; when the Sectors_and_Schemes search
\* returns zero records it answers 200 with an empty Sectors_and_Schemes.
C9_ExpertSearch404 ==
    \A t \in Threads : Answers(t) =>
      /\ (Len(loc[t].docs) >= 1 /\ ZeroRecords(loc[t].docs[1])) =>
            /\ loc[t].result.status = 404
            /\ Count(loc[t].log, "get") = 1
      /\ loc[t].result.status = 200 =>
            /\ Len(loc[t].docs) = 2
            /\ ~ZeroRecords(loc[t].docs[1])
      /\ (Len(loc[t].docs) = 2 /\ ZeroRecords(loc[t].docs[2])) =>
            /\ loc[t].result.status = 200
            /\ loc[t].result.body.Sectors_and_Schemes = <<>>

C9_Witness ==
    \E t \in Threads :
      /\ Answers(t) /\ Len(loc[t].docs) = 1
      /\ loc[t].docs[1] = [data |-> <<>>]
      /\ loc[t].result.status = 404

\* a token refresh, or a CRM call, of the request failed
RefreshFailed(t) == "post_failed" \in Range(loc[t].log)
CrmCallFailed(t) == "get_failed" \in Range(loc[t].log)
IsError(r) == r.status \notin 200..299 /\ "error" \in DOMAIN r.body

\* C10 as stated: a failed token refresh or CRM call makes the endpoint answer
\* with an error; after a failed token refresh no GET has been sent at all;
\* after a failed first CRM call there is no second one.
C10_NoGetAtAll ==
    \A t \in Threads : Answers(t) =>
      /\ (RefreshFailed(t) \/ CrmCallFailed(t)) => IsError(loc[t].result)
      /\ RefreshFailed(t) => Count(loc[t].log, "get") = 0
      /\ (CrmCallFailed(t) /\ loc[t].fetchNo = 1) => Count(loc[t].log, "get") = 1

\* C10 amended: a failed token refresh or CRM call makes the endpoint answer
\* 500 with an error; nothing is sent after the failure (no GET follows a
\* failed refresh, and none at all when it is the first call's), and after a
\* failed first CRM call there is no second one.
C10_NoGetAfterFailure ==
    \A t \in Threads : Answers(t) =>
      LET log == loc[t].log IN
      /\ (RefreshFailed(t) \/ CrmCallFailed(t)) =>
            /\ loc[t].result.status = 500
            /\ "error" \in DOMAIN loc[t].result.body
            /\ log[Len(log)] \in {"post_failed", "get_failed"}
            /\ Count(log, "post_failed") + Count(log, "get_failed") = 1
      /\ (RefreshFailed(t) /\ loc[t].fetchNo = 1) => Count(log, "get") = 0
      /\ (RefreshFailed(t) /\ loc[t].fetchNo = 2) => Count(log, "get") = 1
      /\ (CrmCallFailed(t) /\ loc[t].fetchNo = 1) => Count(log, "get") = 1
      /\ loc[t].result.status = 200 => Count(log, "get") = 2

C10_Witness ==
    \E t \in Threads :
      /\ Answers(t) /\ RefreshFailed(t) /\ loc[t].fetchNo = 2
      /\ Count(loc[t].log, "get") = 1
      /\ loc[t].result.status = 500
=============================================================================
